---------------------------- MODULE Spec2Model ----------------------------
(***************************************************************************)
(* Ingestion of point-of-sale exports (scripts/ingest_doordash.py,         *)
(* scripts/ingest_square.py, scripts/ingest_toast.py) into the canonical   *)
(* orders / order_items tables, and the text normalizer                    *)
(* (scripts/normalize.py).                                                 *)
(*                                                                         *)
(* Representation of Python values:                                        *)
(*   - a text is a sequence of characters; a character is a one-character  *)
(*     string, or the name "U+XXXX" of a codepoint outside ASCII;          *)
(*   - an optional value (None or a value) is <<>> or <<value>>;           *)
(*   - a JSON scalar read from a money field is a tagged record, see Jv.   *)
(***************************************************************************)
EXTENDS Integers, Sequences, FiniteSets, TLC

VARIABLES
    locations,    \* table locations: the names upserted so far
    orders,       \* table orders: a set of rows
    order_items,  \* table order_items: a bag of rows
    adapter,      \* the script running (or run last)
    catalog,      \* Square's catalog.json: catalog["objects"]
    doc,          \* the export's "orders", in document order
    idx,          \* position of the main loop in doc
    pc,           \* "idle", or the store call the run makes next
    order_id,     \* the id read back for the current order
    status,       \* how the last run ended
    start0,       \* the tables when the current run started
    rerun,        \* the current run repeats the one before it on the same export
    prev_status,  \* for a repeated run: how the run before it ended
    prev_start,   \* for a repeated run: the tables when the run before it started
    nc_pc,        \* normalizer harness: "in" -> "once" -> "twice"
    nc_in,        \* optional text handed to normalize_category
    nc_out,       \* normalize_category(nc_in)
    nc_out2       \* normalize_category(nc_out)

storeVars == <<locations, orders, order_items>>
runVars == <<adapter, catalog, doc, idx, pc, order_id, status>>
histVars == <<start0, rerun, prev_status, prev_start>>
normVars == <<nc_pc, nc_in, nc_out, nc_out2>>
vars == <<storeVars, runVars, histVars, normVars>>

(***************************************************************************)
(* Bounds                                                                  *)
(***************************************************************************)
MaxTextLen == 4
MaxDoc == 2
MaxChecks == 2
MaxCatalog == 2

None == <<>>
Some(x) == <<x>>

(***************************************************************************)
(* Characters.  unicodedata.category, str.isspace and str.lower on the     *)
(* characters the model uses.                                              *)
(***************************************************************************)
UpperLetters == <<"A","B","C","D","E","F","G","H","I","J","K","L","M",
                  "N","O","P","Q","R","S","T","U","V","W","X","Y","Z">>
LowerLetters == <<"a","b","c","d","e","f","g","h","i","j","k","l","m",
                  "n","o","p","q","r","s","t","u","v","w","x","y","z">>

Range(s) == {s[i] : i \in 1..Len(s)}

\* Characters str.isspace() accepts: space, tab, newline, NO-BREAK SPACE.
SpaceChars == {" ", "\t", "\n", "U+00A0"}

\* Characters whose general category starts with "S":
\*   "$" Sc, "+" Sm, "^" Sk, U+2615 HOT BEVERAGE So (BMP),
\*   U+1F600 GRINNING FACE So (outside the BMP), U+24B6 CIRCLED A So.
SymbolChars == {"$", "+", "^", "U+2615", "U+1F600", "U+24B6"}

\* Codepoints in [U+10000, U+10FFFF]:
\*   U+1F600 (So), U+10400 DESERET CAPITAL LONG I (Lu),
\*   U+10428 DESERET SMALL LONG I (Ll), U+E0001 LANGUAGE TAG (Cf).
NonBMPChars == {"U+1F600", "U+10400", "U+10428", "U+E0001"}

\* unicodedata.category(ch)[0]
Category(ch) ==
    IF ch \in SymbolChars THEN "S"
    ELSE IF ch \in {" ", "U+00A0"} THEN "Z"
    ELSE IF ch \in {"\t", "\n", "U+E0001"} THEN "C"
    ELSE IF ch = "U+0307" THEN "M"
    ELSE IF ch \in {"-", "'"} THEN "P"
    ELSE IF ch \in {"0", "1"} THEN "N"
    ELSE "L"

\* str.lower() of one character: a text, since U+0130 (LATIN CAPITAL I WITH
\* DOT ABOVE) lowers to the two characters "i", U+0307.
LowerChar(ch) ==
    IF ch \in Range(UpperLetters)
    THEN <<LowerLetters[CHOOSE i \in 1..26 : UpperLetters[i] = ch]>>
    ELSE IF ch = "U+0130" THEN <<"i", "U+0307">>
    ELSE IF ch = "U+10400" THEN <<"U+10428">>
    ELSE IF ch = "U+24B6" THEN <<"U+24D0">>
    ELSE <<ch>>

RECURSIVE Lower(_)
Lower(s) == IF s = <<>> THEN <<>> ELSE LowerChar(Head(s)) \o Lower(Tail(s))

RECURSIVE LStrip(_)
LStrip(s) ==
    IF s # <<>> /\ Head(s) \in SpaceChars THEN LStrip(Tail(s)) ELSE s

RECURSIVE RStrip(_)
RStrip(s) ==
    IF s # <<>> /\ s[Len(s)] \in SpaceChars
    THEN RStrip(SubSeq(s, 1, Len(s) - 1)) ELSE s

\* str.strip()
Strip(s) == RStrip(LStrip(s))

\* The first whitespace-free word of s (s starts with a non-space character).
RECURSIVE FirstWord(_)
FirstWord(s) ==
    IF s = <<>> \/ Head(s) \in SpaceChars THEN <<>>
    ELSE <<Head(s)>> \o FirstWord(Tail(s))

\* str.split(): the maximal whitespace-free words of s, in order.
RECURSIVE Split(_)
Split(s) ==
    LET t == LStrip(s) IN
    IF t = <<>> THEN <<>>
    ELSE LET w == FirstWord(t) IN
         <<w>> \o Split(SubSeq(t, Len(w) + 1, Len(t)))

\* " ".join(words)
RECURSIVE JoinSpace(_)
JoinSpace(ws) ==
    IF ws = <<>> THEN <<>>
    ELSE IF Len(ws) = 1 THEN ws[1]
    ELSE ws[1] \o <<" ">> \o JoinSpace(Tail(ws))

\* s or ""
OrEmpty(opt) == IF opt = None THEN <<>> ELSE opt[1]

\* "".join(ch for ch in s if unicodedata.category(ch)[0] != "S")
DropSymbols(s) == SelectSeq(s, LAMBDA ch : Category(ch) # "S")

\* _EMOJI_RE.sub("", s)
DropNonBMP(s) == SelectSeq(s, LAMBDA ch : ch \notin NonBMPChars)

\* normalize_name(s)
NormalizeName(opt) == JoinSpace(Split(Lower(Strip(OrEmpty(opt)))))

\* A variant that relies on the first strip() alone and does not re-split.
NormalizeCategoryNoCollapse(opt) ==
    Lower(DropNonBMP(DropSymbols(Strip(OrEmpty(opt)))))

\* normalize_category(s)
NormalizeCategory(opt) ==
    JoinSpace(Split(Lower(DropNonBMP(DropSymbols(Strip(OrEmpty(opt)))))))

(***************************************************************************)
(* JSON scalars and Python's coercions of them.                            *)
(***************************************************************************)
JNone == [t |-> "none"]
JInt(n) == [t |-> "int", v |-> n]
JStr(s) == [t |-> "str", v |-> s]

Numerals == <<"1", "2", "3", "4", "5", "6", "7", "8", "9">>

\* bool(x): None, 0 and "" are falsy.
Truthy(jv) ==
    CASE jv.t = "none" -> FALSE
      [] jv.t = "int" -> jv.v # 0
      [] jv.t = "str" -> jv.v # ""

\* The result of a call: a value, or an exception raised.
Ok(v) == [ok |-> TRUE, v |-> v]
Raise == [ok |-> FALSE, v |-> 0]

\* int(x) for a truthy x: ValueError on a string that is no numeral.
PyInt(jv) ==
    CASE jv.t = "int" -> Ok(jv.v)
      [] jv.t = "str" ->
            IF jv.v = "0" THEN Ok(0)
            ELSE IF jv.v \in Range(Numerals)
            THEN Ok(CHOOSE i \in 1..9 : Numerals[i] = jv.v)
            ELSE Raise
      [] OTHER -> Raise

\* int(x or 0)
PyIntOrZero(jv) == IF Truthy(jv) THEN PyInt(jv) ELSE Ok(0)

\* str(x) for a truthy identifier x.
PyStr(jv) ==
    IF jv.t = "int" /\ jv.v \in 1..9 THEN Numerals[jv.v] ELSE jv.v

\* a or b
PyOr(a, b) == IF Truthy(a) THEN a ELSE b

\* opt or default, for an optional string ("" is falsy).
OptOr(opt, default) == IF opt = None \/ opt[1] = "" THEN default ELSE opt[1]

\* opt or default, for an optional text (the empty text is falsy).
TextOr(opt, default) == IF opt = None \/ opt[1] = <<>> THEN default ELSE opt[1]

\* float(x or 1): quantities of the model are whole numbers, n standing for n.0
PyFloatOrOne(jv) == IF Truthy(jv) THEN PyInt(jv) ELSE Ok(1)

\* int(a / b) for b > 0: true division, then truncation toward zero.
TruncDiv(a, b) == IF a >= 0 THEN a \div b ELSE -((-a) \div b)

tUnknown == <<"u", "n", "k", "n", "o", "w", "n">>

(***************************************************************************)
(* The store: tables orders and order_items behind the client's            *)
(* upsert / select / delete / insert calls.  orders is a set of rows;      *)
(* order_items, whose rows carry no key of their own, is a bag of rows     *)
(* (row -> number of copies).  locations holds the names upserted; the id  *)
(* the store gives a location is written as its name.                      *)
(***************************************************************************)
EmptyMap == [x \in {} |-> x]

OrderKey(r) == <<r.source, r.source_order_id>>

Matching(ords, source, sid) ==
    {r \in ords : r.source = source /\ r.source_order_id = sid}

FreshId(ords) == Cardinality(ords) + 1

WithId(payload, id) ==
    [f \in DOMAIN payload \cup {"id"} |-> IF f = "id" THEN id ELSE payload[f]]

\* A store without the conflict target: every upsert inserts a new row.
UpsertAlwaysInserts(ords, payload) == ords \cup {WithId(payload, FreshId(ords))}

\* An upsert that leaves the row in place on a conflict (ignore-duplicates).
UpsertIgnoresConflict(ords, payload) ==
    IF Matching(ords, payload.source, payload.source_order_id) = {}
    THEN ords \cup {WithId(payload, FreshId(ords))}
    ELSE ords

\* sb.table("orders").upsert(payload, on_conflict="source,source_order_id")
UpsertOrder(ords, payload) ==
    LET hit == Matching(ords, payload.source, payload.source_order_id) IN
    IF hit = {} THEN ords \cup {WithId(payload, FreshId(ords))}
    ELSE (ords \ hit) \cup {WithId(payload, r.id) : r \in hit}

\* A delete that removes nothing.
DeleteNothing(items, id) == items

\* sb.table("order_items").delete().eq("order_id", order_id)
DeleteItems(items, id) ==
    LET keep == {r \in DOMAIN items : r.order_id # id} IN
    [r \in keep |-> items[r]]

\* The rows of a list, as a bag.
RECURSIVE RowsToBag(_)
RowsToBag(rows) ==
    IF rows = <<>> THEN EmptyMap
    ELSE LET rest == RowsToBag(Tail(rows))
             r == Head(rows) IN
         IF r \in DOMAIN rest
         THEN [rest EXCEPT ![r] = @ + 1]
         ELSE [x \in DOMAIN rest \cup {r} |-> IF x = r THEN 1 ELSE rest[x]]

\* sb.table("order_items").insert(item_rows)
InsertItems(items, rows) ==
    LET new == RowsToBag(rows) IN
    [r \in DOMAIN items \cup DOMAIN new |->
        (IF r \in DOMAIN items THEN items[r] ELSE 0)
      + (IF r \in DOMAIN new THEN new[r] ELSE 0)]

WithOrderId(row, id) ==
    [f \in DOMAIN row \cup {"order_id"} |-> IF f = "order_id" THEN id ELSE row[f]]

StampRows(rows, id) == [i \in 1..Len(rows) |-> WithOrderId(rows[i], id)]

CanonNames == {"Downtown", "Airport", "Mall", "University"}

\* dict.get(key) for an optional key: None when the key is absent.
MapGet(m, optKey) ==
    IF optKey # None /\ optKey[1] \in DOMAIN m THEN Some(m[optKey[1]]) ELSE None

\* What the code before the first store call makes of one input order:
\* `continue`, an exception, or the payload to upsert.
Skipped == [kind |-> "skip"]
Raised == [kind |-> "raise"]
Payload(p) == [kind |-> "ok", payload |-> p]

(***************************************************************************)
(* ingest_doordash.py                                                      *)
(***************************************************************************)
DD_LOC_TO_CANON ==
    [k \in {"str_downtown_001", "str_airport_002", "str_mall_003", "str_university_004"} |->
        CASE k = "str_downtown_001" -> "Downtown"
          [] k = "str_airport_002" -> "Airport"
          [] k = "str_mall_003" -> "Mall"
          [] k = "str_university_004" -> "University"]

\* A coercion without the try/except: the exception escapes.

\* to_int_cents(x): int(x or 0), 0 on any exception.
DDToIntCents(x) ==
    LET r == PyIntOrZero(x) IN IF r.ok THEN r ELSE Ok(0)

\* total, recomputed without the fees.
DDTotalNoFees(reported, item_sales, tax, tip, fees) ==
    IF reported = 0 THEN item_sales + tax + tip ELSE reported

\* total = to_int_cents(...); if total == 0: total = item_sales + tax + tip + fees
DDTotal(reported, item_sales, tax, tip, fees) ==
    IF reported = 0 THEN item_sales + tax + tip + fees ELSE reported

\* An order without a usable site is processed all the same.
DDSiteNeverSkips(o) == FALSE

\* if not canon_loc: continue
DDSiteSkips(o) == MapGet(DD_LOC_TO_CANON, o.store_id) = None

\* Lines 41-81: the skips and the order payload.
DDEval(o) ==
    LET canon_loc == MapGet(DD_LOC_TO_CANON, o.store_id)
        item_sales == DDToIntCents(o.order_subtotal)
        tax == DDToIntCents(o.tax_amount)
        tip == DDToIntCents(o.dasher_tip)
        delivery_fee == DDToIntCents(o.delivery_fee)
        service_fee == DDToIntCents(o.service_fee)
        reported == DDToIntCents(o.total_charged_to_consumer)
        source_order_id == PyOr(o.external_delivery_id, o.id)
    IN
    IF DDSiteSkips(o) THEN Skipped
    ELSE IF OptOr(o.created_at, "") = "" THEN Skipped
    ELSE IF ~(item_sales.ok /\ tax.ok /\ tip.ok /\ delivery_fee.ok
              /\ service_fee.ok /\ reported.ok) THEN Raised
    ELSE IF ~Truthy(source_order_id) THEN Skipped
    ELSE Payload([
        source |-> "DOORDASH",
        source_detail |-> "DOORDASH",
        source_order_id |-> PyStr(source_order_id),
        location_id |-> OptOr(canon_loc, ""),
        ordered_at |-> o.created_at[1],
        fulfillment |-> OptOr(o.order_fulfillment_method, "UNKNOWN"),
        item_sales_cents |-> item_sales.v,
        tax_cents |-> tax.v,
        tip_cents |-> tip.v,
        fees_cents |-> delivery_fee.v + service_fee.v,
        total_cents |-> DDTotal(reported.v, item_sales.v, tax.v, tip.v,
                                delivery_fee.v + service_fee.v)])

\* Lines 94-113: one order_items row (without its order_id).
DDItemRow(it) ==
    LET raw_name == TextOr(it.name, tUnknown)
        qty == PyFloatOrOne(it.quantity)
        unit_price == DDToIntCents(it.unit_price)
        reported == DDToIntCents(it.total_price)
        line_total == IF reported.v = 0 /\ unit_price.v # 0
                      THEN unit_price.v * qty.v ELSE reported.v
    IN
    IF ~(qty.ok /\ unit_price.ok /\ reported.ok) THEN Raise
    ELSE Ok([
        raw_name |-> raw_name,
        normalized_name |-> NormalizeName(Some(raw_name)),
        raw_category |-> it.category,
        normalized_category |-> NormalizeCategory(it.category),
        quantity |-> qty.v,
        unit_price_cents |-> IF unit_price.v # 0 THEN Some(unit_price.v) ELSE None,
        line_total_cents |-> line_total])

\* Lines 92-113: the rows of an order's items, or the exception one of them raises.
RECURSIVE DDItemRows(_)
DDItemRows(its) ==
    IF its = <<>> THEN Ok(<<>>)
    ELSE LET r == DDItemRow(Head(its))
             rest == DDItemRows(Tail(its)) IN
         IF r.ok /\ rest.ok THEN Ok(<<r.v>> \o rest.v) ELSE Raise

(***************************************************************************)
(* ingest_square.py                                                        *)
(***************************************************************************)
SQUARE_LOC_TO_CANON ==
    [k \in {"LCN001DOWNTOWN", "LCN002AIRPORT", "LCN003MALL", "LCN004UNIV"} |->
        CASE k = "LCN001DOWNTOWN" -> "Downtown"
          [] k = "LCN002AIRPORT" -> "Airport"
          [] k = "LCN003MALL" -> "Mall"
          [] k = "LCN004UNIV" -> "University"]

\* A Square money object {"amount": a, "currency": c}; the currency is not read.
JMoney(a) == [t |-> "dict", amount |-> a]

\* to_int_cents(money_obj): 0 for a falsy object, AttributeError for a truthy
\* value that is no object, ValueError for an amount int() rejects.
SQToIntCents(money_obj) ==
    IF money_obj.t = "dict" THEN PyIntOrZero(money_obj.amount)
    ELSE IF Truthy(money_obj) THEN Raise
    ELSE Ok(0)

\* dict assignment m[k] = v
Put(m, k, v) == [x \in DOMAIN m \cup {k} |-> IF x = k THEN v ELSE m[x]]

\* Lines 46-49: category_id -> category name
RECURSIVE CategoryNames(_)
CategoryNames(objs) ==
    IF objs = <<>> THEN EmptyMap
    ELSE LET obj == objs[Len(objs)]
             before == CategoryNames(SubSeq(objs, 1, Len(objs) - 1)) IN
         IF obj.type = "CATEGORY" THEN Put(before, obj.id, obj.name) ELSE before

\* Lines 50-55: item_id -> {name, category_id}
RECURSIVE CatalogItems(_)
CatalogItems(objs) ==
    IF objs = <<>> THEN EmptyMap
    ELSE LET obj == objs[Len(objs)]
             before == CatalogItems(SubSeq(objs, 1, Len(objs) - 1)) IN
         IF obj.type = "ITEM"
         THEN Put(before, obj.id, [name |-> obj.name, category_id |-> obj.category_id])
         ELSE before

RECURSIVE PutVariations(_, _, _)
PutVariations(m, vs, item_id) ==
    IF vs = <<>> THEN m
    ELSE PutVariations(
            Put(m, vs[1].id, [variation_name |-> vs[1].name, item_id |-> item_id]),
            Tail(vs), item_id)

\* Lines 56-60: variation_id -> {variation_name, item_id}
RECURSIVE CatalogVariations(_)
CatalogVariations(objs) ==
    IF objs = <<>> THEN EmptyMap
    ELSE LET obj == objs[Len(objs)]
             before == CatalogVariations(SubSeq(objs, 1, Len(objs) - 1)) IN
         IF obj.type = "ITEM" THEN PutVariations(before, obj.variations, obj.id)
         ELSE before

\* build_catalog_maps(catalog): variation_id -> {item_name, variation_name, category_name}
BuildCatalogMaps(objs) ==
    LET category_names == CategoryNames(objs)
        items == CatalogItems(objs)
        variations == CatalogVariations(objs)
    IN
    [var_id \in DOMAIN variations |->
        LET item == items[variations[var_id].item_id]
            cat_name == MapGet(category_names, item.category_id) IN
        [item_name |-> item.name,
         variation_name |-> variations[var_id].variation_name,
         category_name |-> IF cat_name = None THEN None ELSE cat_name[1]]]

NoCatalogEntry == [item_name |-> None, variation_name |-> None, category_name |-> None]

tRegular == <<"r", "e", "g", "u", "l", "a", "r">>
tDefault == <<"d", "e", "f", "a", "u", "l", "t">>

\* li.get("name") or cat.get("item_name") or "unknown"
SQBaseName(li, cat) == TextOr(li.name, TextOr(cat.item_name, tUnknown))

\* Lines 144-148: the persisted raw_name of a line item.
SQRawName(li, cat) ==
    LET variation_name == TextOr(cat.variation_name, <<>>) IN
    IF variation_name # <<>> /\ Lower(variation_name) \notin {tRegular, tDefault}
    THEN SQBaseName(li, cat) \o <<" ", "-", " ">> \o variation_name
    ELSE SQBaseName(li, cat)

\* if not canon_loc: continue
SQSiteSkips(o) == MapGet(SQUARE_LOC_TO_CANON, o.location_id) = None

\* Lines 89-126: the skips and the order payload.
SQEval(o) ==
    LET canon_loc == MapGet(SQUARE_LOC_TO_CANON, o.location_id)
        ordered_at == OptOr(o.closed_at, OptOr(o.created_at, ""))
        fulfillment == IF o.fulfillments # <<>>
                       THEN OptOr(o.fulfillments[1], "UNKNOWN") ELSE "UNKNOWN"
        item_sales == SQToIntCents(o.total_money)
        tax == SQToIntCents(o.total_tax_money)
        tip == SQToIntCents(o.total_tip_money)
        reported == SQToIntCents(o.total_money)
    IN
    IF SQSiteSkips(o) THEN Skipped
    ELSE IF ordered_at = "" THEN Skipped
    ELSE IF ~(item_sales.ok /\ tax.ok /\ tip.ok /\ reported.ok) THEN Raised
    ELSE IF ~Truthy(o.id) THEN Skipped
    ELSE Payload([
        source |-> "SQUARE",
        source_detail |-> OptOr(o.source, "SQUARE"),
        source_order_id |-> PyStr(o.id),
        location_id |-> OptOr(canon_loc, ""),
        ordered_at |-> ordered_at,
        fulfillment |-> fulfillment,
        item_sales_cents |-> item_sales.v,
        tax_cents |-> tax.v,
        tip_cents |-> tip.v,
        fees_cents |-> 0,
        total_cents |-> IF reported.v = 0 THEN item_sales.v + tax.v + tip.v
                        ELSE reported.v])

\* Lines 138-169: one order_items row (without its order_id).
SQItemRow(li, variation_map) ==
    LET qty == PyFloatOrOne(li.quantity)
        found == MapGet(variation_map, li.catalog_object_id)
        cat == IF found = None THEN NoCatalogEntry ELSE found[1]
        raw_name == SQRawName(li, cat)
        raw_cat == cat.category_name
        total == SQToIntCents(li.total_money)
        gross == SQToIntCents(li.gross_sales_money)
        line_total == IF total.v = 0 THEN gross.v ELSE total.v
    IN
    IF ~qty.ok \/ ~total.ok \/ (total.v = 0 /\ ~gross.ok) THEN Raise
    ELSE Ok([
        raw_name |-> raw_name,
        normalized_name |-> NormalizeName(Some(raw_name)),
        raw_category |-> raw_cat,
        normalized_category |-> NormalizeCategory(raw_cat),
        quantity |-> qty.v,
        unit_price_cents |-> IF qty.v # 0 /\ line_total # 0
                             THEN Some(TruncDiv(line_total, qty.v)) ELSE None,
        line_total_cents |-> line_total])

RECURSIVE SQItemRows(_, _)
SQItemRows(lis, variation_map) ==
    IF lis = <<>> THEN Ok(<<>>)
    ELSE LET r == SQItemRow(Head(lis), variation_map)
             rest == SQItemRows(Tail(lis), variation_map) IN
         IF r.ok /\ rest.ok THEN Ok(<<r.v>> \o rest.v) ELSE Raise

(***************************************************************************)
(* ingest_toast.py                                                         *)
(***************************************************************************)
TOAST_LOC_TO_CANON ==
    [k \in {"loc_downtown_001", "loc_airport_002", "loc_mall_003", "loc_univ_004"} |->
        CASE k = "loc_downtown_001" -> "Downtown"
          [] k = "loc_airport_002" -> "Airport"
          [] k = "loc_mall_003" -> "Mall"
          [] k = "loc_univ_004" -> "University"]

\* pick_ordered_at(o)
ToastPickOrderedAt(o) == OptOr(o.paidDate, OptOr(o.closedDate, OptOr(o.openedDate, "")))

\* sum of int(chk.get(field) or 0) over the checks, or the exception int() raises
RECURSIVE ToastSum(_, _)
ToastSum(checks, field) ==
    IF checks = <<>> THEN Ok(0)
    ELSE LET x == PyIntOrZero(Head(checks)[field])
             rest == ToastSum(Tail(checks), field) IN
         IF x.ok /\ rest.ok THEN Ok(x.v + rest.v) ELSE Raise

\* Lines 58-71: one order_items row (without its order_id).
ToastItemRow(sel) ==
    LET raw_name == TextOr(sel.displayName, TextOr(sel.item_name, tUnknown))
        qty == PyFloatOrOne(sel.quantity)
        line_total == PyIntOrZero(sel.price)
    IN
    IF ~(qty.ok /\ line_total.ok) THEN Raise
    ELSE Ok([
        raw_name |-> raw_name,
        normalized_name |-> NormalizeName(Some(raw_name)),
        raw_category |-> sel.itemGroup,
        normalized_category |-> NormalizeCategory(sel.itemGroup),
        quantity |-> qty.v,
        unit_price_cents |-> None,
        line_total_cents |-> line_total.v])

RECURSIVE ToastSelectionRows(_)
ToastSelectionRows(sels) ==
    IF sels = <<>> THEN Ok(<<>>)
    ELSE LET r == ToastItemRow(Head(sels))
             rest == ToastSelectionRows(Tail(sels)) IN
         IF r.ok /\ rest.ok THEN Ok(<<r.v>> \o rest.v) ELSE Raise

\* Lines 51-71: the rows of all selections of all checks, in order.
RECURSIVE ToastItemRows(_)
ToastItemRows(checks) ==
    IF checks = <<>> THEN Ok(<<>>)
    ELSE LET r == ToastSelectionRows(Head(checks).selections)
             rest == ToastItemRows(Tail(checks)) IN
         IF r.ok /\ rest.ok THEN Ok(r.v \o rest.v) ELSE Raise

\* if not canon_loc: continue
ToastSiteSkips(o) == MapGet(TOAST_LOC_TO_CANON, o.restaurantGuid) = None

\* Lines 37-85: the skips and the order payload.  o["guid"] raises KeyError
\* when the order has no guid.
ToastEval(o) ==
    LET canon_loc == MapGet(TOAST_LOC_TO_CANON, o.restaurantGuid)
        ordered_at == ToastPickOrderedAt(o)
        item_sales == ToastSum(o.checks, "amount")
        tax == ToastSum(o.checks, "taxAmount")
        tip == ToastSum(o.checks, "tipAmount")
        total == ToastSum(o.checks, "totalAmount")
        rows == ToastItemRows(o.checks)
    IN
    IF ToastSiteSkips(o) THEN Skipped
    ELSE IF ordered_at = "" THEN Skipped
    ELSE IF ~(item_sales.ok /\ tax.ok /\ tip.ok /\ total.ok /\ rows.ok) THEN Raised
    ELSE IF o.guid = None THEN Raised
    ELSE Payload([
        source |-> "TOAST",
        source_detail |-> OptOr(o.source, "TOAST"),
        source_order_id |-> o.guid[1],
        location_id |-> OptOr(canon_loc, ""),
        ordered_at |-> ordered_at,
        fulfillment |-> OptOr(o.diningOption, "UNKNOWN"),
        item_sales_cents |-> item_sales.v,
        tax_cents |-> tax.v,
        tip_cents |-> tip.v,
        fees_cents |-> 0,
        total_cents |-> IF total.v # 0 THEN total.v
                        ELSE item_sales.v + tax.v + tip.v])

(***************************************************************************)
(* The three adapters behind one interface.                                *)
(***************************************************************************)
Adapters == {"DOORDASH", "SQUARE", "TOAST"}

Eval(a, o) ==
    CASE a = "DOORDASH" -> DDEval(o)
      [] a = "SQUARE" -> SQEval(o)
      [] a = "TOAST" -> ToastEval(o)

\* item_rows of an order the adapter did not skip.
ItemRows(a, cat, o) ==
    CASE a = "DOORDASH" -> DDItemRows(o.order_items)
      [] a = "SQUARE" -> SQItemRows(o.line_items, BuildCatalogMaps(cat))
      [] a = "TOAST" -> ToastItemRows(o.checks)

LocTable(a) ==
    CASE a = "DOORDASH" -> DD_LOC_TO_CANON
      [] a = "SQUARE" -> SQUARE_LOC_TO_CANON
      [] a = "TOAST" -> TOAST_LOC_TO_CANON

(***************************************************************************)
(* The run of one script, one store call at a time.                        *)
(***************************************************************************)
Tables(ords, items) == [orders |-> ords, items |-> items]

EmptyTables == Tables({}, EmptyMap)

Ended(kind, at) == [kind |-> kind, at |-> at]

NotRun == Ended("none", "")

Cur == doc[idx]

CurPayload == Eval(adapter, Cur).payload

CurRows == ItemRows(adapter, catalog, Cur)

\* loc_id = {name: upsert_location(name) for name in set(LOC_TO_CANON.values())}
BootstrapLocations ==
    /\ pc = "boot"
    /\ locations' = locations \cup {LocTable(adapter)[k] : k \in DOMAIN LocTable(adapter)}
    /\ pc' = "next"
    /\ idx' = 1
    /\ UNCHANGED <<orders, order_items, adapter, catalog, doc, order_id, status>>
    /\ UNCHANGED <<histVars, normVars>>

\* `continue`: the order is dropped and the loop goes on.
SkipOrder ==
    /\ pc = "next"
    /\ idx <= Len(doc)
    /\ Eval(adapter, Cur).kind = "skip"
    /\ idx' = idx + 1
    /\ UNCHANGED <<storeVars, adapter, catalog, doc, pc, order_id, status>>
    /\ UNCHANGED <<histVars, normVars>>

\* An exception before the order's first store call ends the script.
RaiseBeforeWrite ==
    /\ pc = "next"
    /\ idx <= Len(doc)
    /\ Eval(adapter, Cur).kind = "raise"
    /\ pc' = "idle"
    /\ status' = Ended("crashed", "next")
    /\ UNCHANGED <<storeVars, adapter, catalog, doc, idx, order_id>>
    /\ UNCHANGED <<histVars, normVars>>

\* sb.table("orders").upsert(order_payload, on_conflict="source,source_order_id")
Upsert ==
    /\ pc = "next"
    /\ idx <= Len(doc)
    /\ Eval(adapter, Cur).kind = "ok"
    /\ orders' = UpsertOrder(orders, CurPayload)
    /\ pc' = "select"
    /\ UNCHANGED <<locations, order_items, adapter, catalog, doc, idx, order_id, status>>
    /\ UNCHANGED <<histVars, normVars>>

\* order_id = sb.table("orders").select("id").eq(...).eq(...).single()...["id"]
\* .single() raises unless exactly one row matches.
SelectId ==
    /\ pc = "select"
    /\ LET hit == Matching(orders, CurPayload.source, CurPayload.source_order_id) IN
       IF Cardinality(hit) = 1
       THEN /\ order_id' = (CHOOSE r \in hit : TRUE).id
            /\ pc' = "delete"
            /\ status' = status
       ELSE /\ order_id' = order_id
            /\ pc' = "idle"
            /\ status' = Ended("crashed", "select")
    /\ UNCHANGED <<storeVars, adapter, catalog, doc, idx>>
    /\ UNCHANGED <<histVars, normVars>>

\* The script goes on to the insert without the delete.
DeleteSkipped ==
    /\ pc = "delete"
    /\ pc' = "insert"
    /\ UNCHANGED <<storeVars, adapter, catalog, doc, idx, order_id, status>>
    /\ UNCHANGED <<histVars, normVars>>

\* sb.table("order_items").delete().eq("order_id", order_id)
Delete ==
    /\ pc = "delete"
    /\ order_items' = DeleteItems(order_items, order_id)
    /\ pc' = "insert"
    /\ UNCHANGED <<locations, orders, adapter, catalog, doc, idx, order_id, status>>
    /\ UNCHANGED <<histVars, normVars>>

\* item_rows is built (an exception there ends the script), then
\* if item_rows: sb.table("order_items").insert(item_rows)
Insert ==
    /\ pc = "insert"
    /\ IF CurRows.ok
       THEN /\ order_items' = IF CurRows.v # <<>>
                              THEN InsertItems(order_items, StampRows(CurRows.v, order_id))
                              ELSE order_items
            /\ idx' = idx + 1
            /\ pc' = "next"
            /\ status' = status
       ELSE /\ order_items' = order_items
            /\ idx' = idx
            /\ pc' = "idle"
            /\ status' = Ended("crashed", "insert")
    /\ UNCHANGED <<locations, orders, adapter, catalog, doc, order_id>>
    /\ UNCHANGED <<histVars, normVars>>

\* The loop ends and the script prints its confirmation.
Finish ==
    /\ pc = "next"
    /\ idx > Len(doc)
    /\ pc' = "idle"
    /\ status' = Ended("done", "")
    /\ UNCHANGED <<storeVars, adapter, catalog, doc, idx, order_id>>
    /\ UNCHANGED <<histVars, normVars>>

\* The run is about to make a store call.
AtStoreCall ==
    \/ pc \in {"boot", "select", "delete"}
    \/ pc = "next" /\ idx <= Len(doc) /\ Eval(adapter, Cur).kind = "ok"
    \/ pc = "insert" /\ CurRows.ok /\ CurRows.v # <<>>

\* .execute() raises: nothing catches it, the script ends, the call has no effect.
StoreFails ==
    /\ AtStoreCall
    /\ status' = Ended("failed", pc)
    /\ pc' = "idle"
    /\ UNCHANGED <<storeVars, adapter, catalog, doc, idx, order_id>>
    /\ UNCHANGED <<histVars, normVars>>

(***************************************************************************)
(* An uninterrupted run, as one function of the export and the tables.     *)
(***************************************************************************)
\* One pass of the loop body for an order that is not skipped: the tables
\* after it, and whether an exception ended the script in it.
ApplyOrder(a, cat, o, tb) ==
    LET p == Eval(a, o).payload
        ords == UpsertOrder(tb.orders, p)
        hit == Matching(ords, p.source, p.source_order_id)
        id == (CHOOSE r \in hit : TRUE).id
        cleared == DeleteItems(tb.items, id)
        rows == ItemRows(a, cat, o)
    IN
    IF Cardinality(hit) # 1 THEN [tables |-> Tables(ords, tb.items), kind |-> "crashed"]
    ELSE IF ~rows.ok THEN [tables |-> Tables(ords, cleared), kind |-> "crashed"]
    ELSE [tables |-> Tables(ords, IF rows.v # <<>>
                                  THEN InsertItems(cleared, StampRows(rows.v, id))
                                  ELSE cleared),
          kind |-> "ok"]

\* for o in orders: ... from position i on
RECURSIVE RunFrom(_, _, _, _, _)
RunFrom(a, cat, d, i, tb) ==
    IF i > Len(d) THEN [tables |-> tb, kind |-> "done"]
    ELSE LET e == Eval(a, d[i]) IN
         IF e.kind = "skip" THEN RunFrom(a, cat, d, i + 1, tb)
         ELSE IF e.kind = "raise" THEN [tables |-> tb, kind |-> "crashed"]
         ELSE LET r == ApplyOrder(a, cat, d[i], tb) IN
              IF r.kind = "crashed" THEN r
              ELSE RunFrom(a, cat, d, i + 1, r.tables)

(***************************************************************************)
(* Exports.                                                                *)
(***************************************************************************)
tTea == <<"T", "e", "a">>
tPie == <<"P", "i", "e">>
tBig == <<"B", "i", "g">>
tCup == <<"C", "u", "p">>
tHot == <<"U+2615", " ", "H", "o", "t", " ">>
tRegularCap == <<"R", "e", "g", "u", "l", "a", "r">>
tDefaultUp == <<"D", "E", "F", "A", "U", "L", "T">>

DDItem(qty, total) ==
    [name |-> Some(tTea), category |-> Some(tHot), quantity |-> qty,
     unit_price |-> JInt(2), total_price |-> total]

DDOrder(site, ts, ext, id, total, items) ==
    [store_id |-> site, created_at |-> ts, order_fulfillment_method |-> Some("DELIVERY"),
     order_subtotal |-> JInt(5), tax_amount |-> JInt(1), dasher_tip |-> JNone,
     delivery_fee |-> JInt(2), service_fee |-> JInt(1),
     total_charged_to_consumer |-> total,
     external_delivery_id |-> ext, id |-> id, order_items |-> items]

DDOrders == {
    DDOrder(Some("str_downtown_001"), Some("t1"), JStr("7"), JNone, JInt(0),
            <<DDItem(JInt(2), JInt(0)), DDItem(JInt(2), JInt(0))>>),
    DDOrder(Some("str_airport_002"), Some("t2"), JNone, JInt(7), JInt(4), <<>>),
    DDOrder(Some("str_nowhere_999"), Some("t1"), JStr("7"), JNone, JInt(8),
            <<DDItem(JInt(1), JInt(2))>>),
    DDOrder(Some("str_downtown_001"), Some("t1"), JStr(""), JNone, JInt(8),
            <<DDItem(JInt(1), JInt(2))>>),
    DDOrder(Some("str_downtown_001"), None, JStr("7"), JNone, JInt(8), <<>>) }

SQLine(name, ref, qty) ==
    [name |-> name, catalog_object_id |-> ref, quantity |-> qty,
     total_money |-> JNone, gross_sales_money |-> JMoney(JInt(5))]

SQOrder(site, closed, id, total, lines) ==
    [location_id |-> site, closed_at |-> closed, created_at |-> Some("t0"),
     fulfillments |-> <<Some("PICKUP")>>, total_money |-> total,
     total_tax_money |-> JMoney(JInt(1)), total_tip_money |-> JNone,
     id |-> id, source |-> None, line_items |-> lines]

SQOrders == {
    SQOrder(Some("LCN001DOWNTOWN"), Some("t1"), JStr("7"), JMoney(JInt(0)),
            <<SQLine(None, Some("v1"), JStr("2")), SQLine(None, Some("v1"), JStr("2"))>>),
    SQOrder(Some("LCN002AIRPORT"), None, JInt(7), JMoney(JInt(4)), <<>>),
    SQOrder(Some("LCN999NOWHERE"), Some("t1"), JStr("7"), JMoney(JInt(8)),
            <<SQLine(Some(tCup), Some("v9"), JNone)>>),
    SQOrder(Some("LCN001DOWNTOWN"), Some("t1"), JNone, JMoney(JInt(8)),
            <<SQLine(Some(tCup), None, JNone)>>),
    SQOrder(Some("LCN001DOWNTOWN"), Some("t3"), JStr("b"), JMoney(JInt(8)),
            <<SQLine(Some(tCup), Some("v2"), JStr("two"))>>) }

CatCategory(id, name) == [type |-> "CATEGORY", id |-> id, name |-> name]
CatVariation(id, name) == [id |-> id, name |-> name]
CatItem(id, name, category_id, variations) ==
    [type |-> "ITEM", id |-> id, name |-> name, category_id |-> category_id,
     variations |-> variations]

StockCatalog == <<
    CatItem("i1", Some(tTea), Some("c1"),
            <<CatVariation("v1", Some(tBig)), CatVariation("v2", Some(tRegularCap))>>),
    CatCategory("c1", Some(tHot)) >>

ToastSelection(name, qty) ==
    [displayName |-> name, item_name |-> Some(tPie), itemGroup |-> Some(tHot),
     quantity |-> qty, price |-> JInt(3)]

ToastCheck(amount, total, sels) ==
    [amount |-> amount, taxAmount |-> JInt(1), tipAmount |-> JNone,
     totalAmount |-> total, selections |-> sels]

ToastOrder(site, paid, guid, checks) ==
    [restaurantGuid |-> site, paidDate |-> paid, closedDate |-> None,
     openedDate |-> Some("t0"), diningOption |-> Some("DINE_IN"), source |-> None,
     guid |-> guid, checks |-> checks]

ToastOrders == {
    ToastOrder(Some("loc_downtown_001"), Some("t1"), Some("7"),
               <<ToastCheck(JInt(5), JInt(0), <<ToastSelection(None, JInt(2))>>),
                 ToastCheck(JInt(5), JInt(0), <<ToastSelection(None, JInt(2))>>)>>),
    ToastOrder(Some("loc_airport_002"), None, Some("7"), <<>>),
    ToastOrder(Some("loc_nowhere_999"), Some("t1"), Some("7"),
               <<ToastCheck(JInt(2), JInt(3), <<ToastSelection(None, JNone)>>)>>),
    ToastOrder(Some("loc_downtown_001"), Some("t1"), None,
               <<ToastCheck(JInt(2), JInt(3), <<ToastSelection(None, JNone)>>)>>) }

OrderPool(a) ==
    CASE a = "DOORDASH" -> DDOrders
      [] a = "SQUARE" -> SQOrders
      [] a = "TOAST" -> ToastOrders

\* The sequences over pool of length at most n.
RECURSIVE SeqsUpTo(_, _)
SeqsUpTo(pool, n) ==
    IF n = 0 THEN {<<>>}
    ELSE LET shorter == SeqsUpTo(pool, n - 1) IN
         shorter \cup {<<c>> \o t : c \in pool, t \in {u \in shorter : Len(u) = n - 1}}

Docs(a) == SeqsUpTo(OrderPool(a), MaxDoc)

CatalogOf(a) == IF a = "SQUARE" THEN StockCatalog ELSE <<>>

(***************************************************************************)
(* Runs of one script, one after another, against one store.               *)
(***************************************************************************)
NormIdle ==
    /\ nc_pc = "off"
    /\ nc_in = None
    /\ nc_out = <<>>
    /\ nc_out2 = <<>>

Init ==
    /\ locations = {}
    /\ orders = {}
    /\ order_items = EmptyMap
    /\ adapter \in Adapters
    /\ catalog = <<>>
    /\ doc = <<>>
    /\ idx = 1
    /\ pc = "idle"
    /\ order_id = 0
    /\ status = NotRun
    /\ start0 = EmptyTables
    /\ rerun = FALSE
    /\ prev_status = NotRun
    /\ prev_start = EmptyTables
    /\ NormIdle

\* A script is started on an export.
StartRun ==
    /\ pc = "idle"
    /\ status = NotRun
    /\ doc' \in Docs(adapter)
    /\ catalog' = CatalogOf(adapter)
    /\ pc' = "boot"
    /\ idx' = 1
    /\ status' = NotRun
    /\ start0' = Tables(orders, order_items)
    /\ rerun' = FALSE
    /\ prev_status' = NotRun
    /\ prev_start' = EmptyTables
    /\ UNCHANGED <<storeVars, adapter, order_id, normVars>>

\* The script that just ended is started again on the same export.
RunAgain ==
    /\ pc = "idle"
    /\ status # NotRun
    /\ pc' = "boot"
    /\ idx' = 1
    /\ status' = NotRun
    /\ start0' = Tables(orders, order_items)
    /\ rerun' = TRUE
    /\ prev_status' = status
    /\ prev_start' = start0
    /\ UNCHANGED <<storeVars, adapter, catalog, doc, order_id, normVars>>

\* What is remembered of the run that ended is dropped; the tables stay.
Forget ==
    /\ pc = "idle"
    /\ status # NotRun
    /\ doc' = <<>>
    /\ catalog' = <<>>
    /\ idx' = 1
    /\ order_id' = 0
    /\ status' = NotRun
    /\ start0' = EmptyTables
    /\ rerun' = FALSE
    /\ prev_status' = NotRun
    /\ prev_start' = EmptyTables
    /\ UNCHANGED <<storeVars, adapter, pc, normVars>>

Step ==
    \/ BootstrapLocations
    \/ SkipOrder
    \/ RaiseBeforeWrite
    \/ Upsert
    \/ SelectId
    \/ Delete
    \/ Insert
    \/ Finish
    \/ StoreFails

Next == StartRun \/ RunAgain \/ Forget \/ Step

Spec == Init /\ [][Next]_vars

(***************************************************************************)
(* What the tables hold, apart from the ids the store assigns.             *)
(***************************************************************************)
Content(r) == [f \in DOMAIN r \ {"id"} |-> r[f]]

ItemContent(r) == [f \in DOMAIN r \ {"order_id"} |-> r[f]]

\* The item rows of order id, without their order_id, as a bag.
ItemsOf(items, id) ==
    LET mine == {r \in DOMAIN items : r.order_id = id} IN
    [c \in {ItemContent(r) : r \in mine} |-> items[WithOrderId(c, id)]]

RECURSIVE SumOver(_, _)
SumOver(f, S) ==
    IF S = {} THEN 0
    ELSE LET x == CHOOSE y \in S : TRUE IN f[x] + SumOver(f, S \ {x})

View(tb) == {[order |-> Content(r), items |-> ItemsOf(tb.items, r.id)] : r \in tb.orders}

\* The same Order rows and, per order, the same OrderItem rows: in number
\* and in content.
SameContent(t1, t2) ==
    /\ View(t1) = View(t2)
    /\ Cardinality(t1.orders) = Cardinality(t2.orders)
    /\ SumOver(t1.items, DOMAIN t1.items) = SumOver(t2.items, DOMAIN t2.items)

Now == Tables(orders, order_items)

RanToEnd(st) == st.kind \in {"done", "crashed"}

SiteOf(a, o) ==
    CASE a = "DOORDASH" -> o.store_id
      [] a = "SQUARE" -> o.location_id
      [] a = "TOAST" -> o.restaurantGuid

Unmapped(a, o) == SiteOf(a, o) = None \/ SiteOf(a, o)[1] \notin DOMAIN LocTable(a)

LacksId(a, o) ==
    CASE a = "DOORDASH" -> ~Truthy(o.external_delivery_id) /\ ~Truthy(o.id)
      [] a = "SQUARE" -> ~Truthy(o.id)
      [] a = "TOAST" -> o.guid = None

Persisted(a, o) == Eval(a, o).kind = "ok"

\* C1: a run repeated on the same export, with no store failure in either
\* run, leaves the tables as the first run left them: the same Order rows
\* and, per order, the same OrderItem rows.
RerunIdempotent ==
    (pc = "idle" /\ rerun /\ RanToEnd(status) /\ RanToEnd(prev_status))
        => SameContent(Now, start0)

RerunIdempotentWitness ==
    /\ pc = "idle" /\ rerun
    /\ status.kind = "done" /\ prev_status.kind = "done"
    /\ prev_start.orders # {}
    /\ Len(doc) = 2
    /\ \E i \in 1..2 : Persisted(adapter, doc[i]) /\ ItemRows(adapter, catalog, doc[i]).v # <<>>
    /\ ~SameContent(Now, prev_start)

\* C2: in every reachable state no two Order rows share (source, source_order_id).
KeyUnique ==
    \A r1, r2 \in orders : OrderKey(r1) = OrderKey(r2) => r1 = r2

KeyUniqueWitness ==
    /\ pc = "idle" /\ rerun
    /\ status.kind = "failed" /\ status.at = "insert"
    /\ prev_status.kind = "done"
    /\ idx = 2
    /\ Persisted(adapter, doc[1]) /\ Persisted(adapter, doc[2])
    /\ Eval(adapter, doc[1]).payload.source_order_id
         = Eval(adapter, doc[2]).payload.source_order_id
    /\ Cardinality(orders) = 1

\* C3: an order whose site has no entry in the source's table writes
\* nothing, and the other orders of the export are persisted as if it were
\* not in the export: a run without store failure ends with the tables an
\* uninterrupted run on the export without its unmapped orders gives.
MappedOnly(a, d) == SelectSeq(d, LAMBDA o : ~Unmapped(a, o))

SkipUnmapped ==
    (pc = "idle" /\ RanToEnd(status))
        => LET ref == RunFrom(adapter, catalog, MappedOnly(adapter, doc), 1, start0) IN
           /\ SameContent(Now, ref.tables)
           /\ ref.kind = status.kind

SkipUnmappedWitness ==
    /\ pc = "idle" /\ status.kind = "done"
    /\ Len(doc) = 2
    /\ Unmapped(adapter, doc[1])
    /\ Persisted(adapter, doc[2])
    /\ start0.orders # {}
    /\ ~SameContent(Now, start0)

\* C4: in every adapter an order that lacks its order identifier is dropped
\* without error: no script ends by an exception on such an order.
MissingIdDropped ==
    ~(/\ pc = "idle"
      /\ status.kind = "crashed"
      /\ idx <= Len(doc)
      /\ LacksId(adapter, doc[idx]))

\* C7: a store failure ends the run and leaves the earlier calls' effects:
\* after a failure of the select, the delete or the insert the Order row is
\* persisted as upserted, and after a failure of the insert it has no
\* OrderItem rows; a run repeated after a failed one, itself without store
\* failure, ends with the tables an uninterrupted run from the tables before
\* the failed run gives.
FailureWindowHeals ==
    /\ (pc = "idle" /\ status.kind = "failed" /\ status.at \in {"select", "delete", "insert"})
          => \E r \in orders :
                /\ Content(r) = CurPayload
                /\ status.at = "insert" => ItemsOf(order_items, r.id) = EmptyMap
    /\ (pc = "idle" /\ rerun /\ prev_status.kind = "failed" /\ RanToEnd(status))
          => LET ref == RunFrom(adapter, catalog, doc, 1, prev_start) IN
             /\ SameContent(Now, ref.tables)
             /\ ref.kind = status.kind

FailureWindowHealsWitness ==
    /\ pc = "idle" /\ rerun
    /\ prev_status = Ended("failed", "insert")
    /\ status.kind = "done"
    /\ prev_start.orders # {}
    /\ \E r \in start0.orders :
          /\ ItemsOf(start0.items, r.id) = EmptyMap
          /\ \E q \in orders : q.id = r.id /\ ItemsOf(order_items, q.id) # EmptyMap
          /\ \E q \in prev_start.orders : q.id = r.id /\ ItemsOf(prev_start.items, q.id) # EmptyMap

\* C10: when an export holds several persisted orders with one order
\* identifier, a completed run leaves exactly one Order row for it, with the
\* fields of the last of them and exactly the items of the last of them.
LastOf(a, d, i) ==
    CHOOSE j \in i..Len(d) :
        /\ Persisted(a, d[j])
        /\ OrderKey(Eval(a, d[j]).payload) = OrderKey(Eval(a, d[i]).payload)
        /\ \A k \in (j + 1)..Len(d) :
              Persisted(a, d[k]) =>
                  OrderKey(Eval(a, d[k]).payload) # OrderKey(Eval(a, d[i]).payload)

LastOccurrenceWins ==
    (pc = "idle" /\ status.kind = "done")
        => \A i \in 1..Len(doc) :
              Persisted(adapter, doc[i]) =>
                 LET last == doc[LastOf(adapter, doc, i)]
                     p == Eval(adapter, last).payload
                     hit == Matching(orders, p.source, p.source_order_id) IN
                 /\ Cardinality(hit) = 1
                 /\ \A r \in hit :
                       /\ Content(r) = p
                       /\ ItemsOf(order_items, r.id)
                            = RowsToBag(ItemRows(adapter, catalog, last).v)

LastOccurrenceWinsWitness ==
    /\ pc = "idle" /\ status.kind = "done"
    /\ Len(doc) = 2
    /\ Persisted(adapter, doc[1]) /\ Persisted(adapter, doc[2])
    /\ OrderKey(Eval(adapter, doc[1]).payload) = OrderKey(Eval(adapter, doc[2]).payload)
    /\ Eval(adapter, doc[1]).payload # Eval(adapter, doc[2]).payload
    /\ ItemRows(adapter, catalog, doc[1]).v # <<>>
    /\ ItemRows(adapter, catalog, doc[2]).v = <<>>

(***************************************************************************)
(* Money harness: one run of a script on an export of one order whose      *)
(* money fields are drawn from the values a JSON field can hold.           *)
(***************************************************************************)
MoneyValues == {JNone, JInt(0), JInt(3), JInt(-2), JStr("abc")}

FeeValues == {JNone, JInt(1), JStr("abc")}

DDMoneyOrders ==
    {[DDOrder(Some("str_downtown_001"), Some("t1"), JStr("7"), JNone, total, <<>>)
        EXCEPT !.order_subtotal = sub, !.tax_amount = tax, !.dasher_tip = tip,
               !.delivery_fee = dfee, !.service_fee = sfee] :
        total \in MoneyValues, sub \in MoneyValues, tax \in MoneyValues,
        tip \in FeeValues, dfee \in MoneyValues, sfee \in FeeValues}

\* A money object, no object, or a bare number where the object should be.
SQMoneyValues == {JNone, JInt(5)} \cup {JMoney(a) : a \in MoneyValues}

SQMoneyOrders ==
    {[SQOrder(Some("LCN001DOWNTOWN"), Some("t1"), id, total, <<>>)
        EXCEPT !.total_tax_money = tax, !.total_tip_money = tip] :
        id \in {JStr("7"), JNone},
        total \in SQMoneyValues, tax \in SQMoneyValues, tip \in SQMoneyValues}

ToastMoneyChecks ==
    {[ToastCheck(amount, total, <<>>) EXCEPT !.taxAmount = tax] :
        amount \in {JNone, JInt(5), JInt(-2), JStr("abc")},
        total \in {JNone, JInt(3), JInt(-3)},
        tax \in {JNone, JInt(1)}}

ToastMoneyOrders ==
    {ToastOrder(Some("loc_downtown_001"), Some("t1"), Some("7"), checks) :
        checks \in SeqsUpTo(ToastMoneyChecks, MaxChecks)}

MoneyOrders(a) ==
    CASE a = "DOORDASH" -> DDMoneyOrders
      [] a = "SQUARE" -> SQMoneyOrders
      [] a = "TOAST" -> ToastMoneyOrders

\* A script has been started on an export of one order, on an empty store.
InitOneOrder(a, o, cat) ==
    /\ locations = {}
    /\ orders = {}
    /\ order_items = EmptyMap
    /\ adapter = a
    /\ catalog = cat
    /\ doc = <<o>>
    /\ idx = 1
    /\ pc = "boot"
    /\ order_id = 0
    /\ status = NotRun
    /\ start0 = EmptyTables
    /\ rerun = FALSE
    /\ prev_status = NotRun
    /\ prev_start = EmptyTables
    /\ NormIdle

InitMoney ==
    \E a \in Adapters : \E o \in MoneyOrders(a) : InitOneOrder(a, o, CatalogOf(a))

SpecMoney == InitMoney /\ [][Step]_vars

\* The total the source reports for an order, where it reports a number or
\* nothing.
ReportedInt(jv) ==
    CASE jv.t = "none" -> [known |-> TRUE, v |-> 0]
      [] jv.t = "int" -> [known |-> TRUE, v |-> jv.v]
      [] OTHER -> [known |-> FALSE, v |-> 0]

RECURSIVE ReportedSum(_)
ReportedSum(checks) ==
    IF checks = <<>> THEN [known |-> TRUE, v |-> 0]
    ELSE LET x == ReportedInt(Head(checks).totalAmount)
             rest == ReportedSum(Tail(checks)) IN
         [known |-> x.known /\ rest.known, v |-> x.v + rest.v]

ReportedTotal(a, o) ==
    CASE a = "DOORDASH" -> ReportedInt(o.total_charged_to_consumer)
      [] a = "SQUARE" ->
            IF o.total_money.t = "dict" THEN ReportedInt(o.total_money.amount)
            ELSE IF o.total_money.t = "none" THEN ReportedInt(JNone)
            ELSE [known |-> FALSE, v |-> 0]
      [] a = "TOAST" -> ReportedSum(o.checks)

\* C5: a persisted order whose source reports a total of 0, or none, has
\* total_cents = item_sales_cents + tax_cents + tip_cents + fees_cents; a
\* reported total other than 0 is persisted unchanged.
TotalReconciled ==
    \A r \in orders :
        LET rep == ReportedTotal(adapter, doc[1]) IN
        /\ (rep.known /\ rep.v = 0) =>
              r.total_cents = r.item_sales_cents + r.tax_cents + r.tip_cents + r.fees_cents
        /\ (rep.known /\ rep.v # 0) => r.total_cents = rep.v

TotalReconciledWitness ==
    /\ pc = "idle" /\ status.kind = "done"
    /\ adapter = "DOORDASH"
    /\ ReportedTotal(adapter, doc[1]) = [known |-> TRUE, v |-> 0]
    /\ \E r \in orders : r.fees_cents = 4 /\ r.total_cents = 10 /\ r.item_sales_cents = 3

\* C6: coercing a money field never raises and gives a non-negative
\* integer: no script ends by an exception before its first store call on
\* these orders, and every money field of every Order row is >= 0.
MoneyFields == {"item_sales_cents", "tax_cents", "tip_cents", "fees_cents", "total_cents"}

MoneyCoercionSafe ==
    /\ ~(pc = "idle" /\ status = Ended("crashed", "next"))
    /\ \A r \in orders : \A f \in MoneyFields : r[f] >= 0

(***************************************************************************)
(* Catalog harness: one run of the Square script on a catalog and an       *)
(* export of one order with one line item.                                 *)
(***************************************************************************)
CatalogPool ==
    {CatCategory("c1", Some(tHot))}
    \cup {CatItem("i1", name, cat, <<CatVariation("v1", vname)>>) :
            name \in {Some(tTea), None},
            cat \in {Some("c1"), None},
            vname \in {Some(tBig), Some(tRegularCap), Some(tDefaultUp), None}}
    \cup {CatItem("i2", Some(tPie), Some("c1"), <<CatVariation("v1", Some(tBig))>>)}

Catalogs == SeqsUpTo(CatalogPool, MaxCatalog)

CatalogLines ==
    {SQLine(name, ref, JNone) :
        name \in {None, Some(tCup)}, ref \in {None, Some("v1"), Some("v9")}}

InitCatalog ==
    \E cat \in Catalogs : \E li \in CatalogLines :
        \E site \in {"LCN001DOWNTOWN", "LCN009"} : \E total \in {JMoney(JInt(5)), JInt(5)} :
            InitOneOrder("SQUARE",
                         SQOrder(Some(site), Some("t1"), JStr("7"), total, <<li>>),
                         cat)

SpecCatalog == InitCatalog /\ [][Step]_vars

\* The catalog holds category c, holding item i, holding variation v, and
\* names each of them once.
Resolves(cat, c, i, v) ==
    /\ c.type = "CATEGORY" /\ i.type = "ITEM"
    /\ i.category_id = Some(c.id)
    /\ v \in Range(i.variations)
    /\ \A k \in 1..Len(cat) :
          /\ cat[k].type = "CATEGORY" /\ cat[k].id = c.id => cat[k] = c
          /\ cat[k].type = "ITEM" /\ cat[k].id = i.id => cat[k] = i
          /\ cat[k].type = "ITEM" /\ (\E w \in Range(cat[k].variations) : w.id = v.id)
                => cat[k] = i
    /\ c.name # None /\ i.name # None /\ v.name # None

TheLine == doc[1].line_items[1]

Inserted == pc = "idle" /\ status.kind = "done"

\* The name and category the catalog gives a line item that references v.
ResolvedAs(row, c, i, v) ==
    /\ row.raw_category = c.name
    /\ row.raw_name = IF Lower(v.name[1]) \in {tRegular, tDefault}
                      THEN i.name[1]
                      ELSE i.name[1] \o <<" ", "-", " ">> \o v.name[1]

\* C8: a line item that references variation V of item I of category C is
\* persisted with raw_name "I - V", or "I" when V is named "regular" or
\* "default" in any case, and with raw_category C; a reference to no
\* variation of the catalog does not fail and gives a null category.
CatalogResolution ==
    /\ status # Ended("crashed", "insert")
    /\ Inserted =>
          \A row \in DOMAIN order_items :
             /\ \A c \in Range(catalog), i \in Range(catalog) :
                   \A v \in (IF i.type = "ITEM" THEN Range(i.variations) ELSE {}) :
                      (Resolves(catalog, c, i, v) /\ TheLine.catalog_object_id = Some(v.id))
                          => ResolvedAs(row, c, i, v)
             /\ (\A i \in Range(catalog) :
                    i.type = "ITEM" =>
                       \A v \in Range(i.variations) : TheLine.catalog_object_id # Some(v.id))
                   => row.raw_category = None

\* The same, for the line items that carry no name of their own.
CatalogResolutionOfUnnamed ==
    TheLine.name = None => CatalogResolution

(***************************************************************************)
(* Normalizer harness: an input text is drawn, normalize_category is       *)
(* applied to it, and then to its own result.                              *)
(***************************************************************************)
NormCharPool == {"A", "a", " ", "\t", "$", "U+2615", "U+1F600", "U+10400", "U+0130"}

RECURSIVE TextsUpTo(_, _)
TextsUpTo(pool, n) ==
    IF n = 0 THEN {<<>>}
    ELSE LET shorter == TextsUpTo(pool, n - 1) IN
         shorter \cup {<<c>> \o t : c \in pool, t \in {u \in shorter : Len(u) = n - 1}}

NormInputs == {None} \cup {Some(t) : t \in TextsUpTo(NormCharPool, MaxTextLen)}

RunIdle ==
    /\ locations = {}
    /\ orders = {}
    /\ order_items = EmptyMap
    /\ adapter = "DOORDASH"
    /\ catalog = <<>>
    /\ doc = <<>>
    /\ idx = 1
    /\ pc = "off"
    /\ order_id = 0
    /\ status = NotRun
    /\ start0 = EmptyTables
    /\ rerun = FALSE
    /\ prev_status = NotRun
    /\ prev_start = EmptyTables

InitNorm ==
    /\ RunIdle
    /\ nc_pc = "in"
    /\ nc_in \in NormInputs
    /\ nc_out = <<>>
    /\ nc_out2 = <<>>

NormalizeOnce ==
    /\ nc_pc = "in"
    /\ nc_out' = NormalizeCategory(nc_in)
    /\ nc_pc' = "once"
    /\ UNCHANGED <<nc_in, nc_out2>>
    /\ UNCHANGED <<storeVars, runVars, histVars>>

NormalizeTwice ==
    /\ nc_pc = "once"
    /\ nc_out2' = NormalizeCategory(Some(nc_out))
    /\ nc_pc' = "twice"
    /\ UNCHANGED <<nc_in, nc_out>>
    /\ UNCHANGED <<storeVars, runVars, histVars>>

NextNorm == NormalizeOnce \/ NormalizeTwice

SpecNorm == InitNorm /\ [][NextNorm]_vars

\* C9: normalize_category is idempotent; its result is a text (never null)
\* without leading, trailing or doubled whitespace, without symbol-category
\* characters and without characters outside the BMP.
CleanText(s) ==
    /\ s \in Seq(STRING)
    /\ \A i \in 1..Len(s) :
          /\ Category(s[i]) # "S"
          /\ s[i] \notin NonBMPChars
          /\ s[i] \in SpaceChars =>
                /\ s[i] = " "
                /\ i # 1 /\ i # Len(s)
                /\ s[i + 1] \notin SpaceChars

NormalizeCategoryIdempotent ==
    /\ nc_pc \in {"once", "twice"} => CleanText(nc_out)
    /\ nc_pc = "twice" => nc_out2 = nc_out

NormalizeCategoryWitness ==
    /\ nc_pc = "twice"
    /\ nc_in = Some(<<"U+2615", " ", "A", "\t">>)
    /\ nc_out = <<"a">>

=============================================================================
